---- MODULE Spec2Model ----
(***************************************************************************)
(* A model of mm.c, the segregated explicit free list allocator.           *)
(*                                                                         *)
(* The heap is the byte array handed out by mem_sbrk.  Addresses are byte  *)
(* offsets from the (16-byte aligned) start of that array, so NULL (0) is  *)
(* never the address of a block.  Memory is kept word by word (8 bytes per *)
(* word, every metadata access of mm.c is an aligned 8-byte access), each  *)
(* word being the tuple of its 8 bytes, so that memcpy can be modelled     *)
(* byte by byte.                                                           *)
(***************************************************************************)
EXTENDS Integers, Sequences, FiniteSets, TLC

(***************************************************************************)
(* Program constants (mm.c lines 36-39, 75).                               *)
(***************************************************************************)
WSIZE == 8
DSIZE == 16
CHUNKSIZE == 4096
ALIGNMENT == 16
N_LISTS == 10
NULL == 0

(***************************************************************************)
(* Bounds of the model.                                                    *)
(*   MaxChunks : the region-growth primitive grants the 32 initial bytes   *)
(*               plus at most MaxChunks * CHUNKSIZE bytes                  *)
(*   MaxOps    : number of public calls (and client writes) after mm_init  *)
(*   MaxLive   : number of allocations the client holds at once            *)
(*   SizeBits  : width of size_t (64 in mm.c); every size and address of   *)
(*               the model is below 2^SizeBits                             *)
(*   PoolOps   : number of calls of the small-block client                 *)
(*   PoolLive  : number of allocations the small-block client holds        *)
(***************************************************************************)
MaxChunks == 2
MaxOps == 4
MaxLive == 2
SizeBits == 16
PoolOps == 7
PoolLive == 4

\* size_t arithmetic is modulo SizeMod; SIZE_MAX is (size_t)-1.
SizeMod == 2 ^ SizeBits
SIZE_MAX == SizeMod - 1

\* Request sizes the client draws from.  None is within 31 of SIZE_MAX,
\* where size + DSIZE or its rounding wraps around.
MallocSizes == {0, 24, 100, 4000}
ReallocSizes == {0, 40, 200}
\* The sizes of the small-block client: blocks of 48 and 64 bytes, both of
\* list 2.
PoolSizes == {24, 40}
\* Request sizes whose adjusted sizes find_fit is probed with.
ProbeRequests == {1, 24, 40, 50, 4000}
\* The sizes of the scripted split-then-serve client.
ScriptSizes == {40, 150, 200}

VARIABLES
    mem,         \* the heap: a sequence of words, word w holds bytes 8(w-1) .. 8w-1
    mem_brk,     \* memlib: one past the last byte of the heap
    heap_listp,  \* mm.c: payload address of the prologue block (NULL before mm_init)
    seg_list,    \* mm.c: the N_LISTS list heads
    live,        \* client: live pointer |-> the size that was requested for it
    hist,        \* client: the last calls (at most three), newest last
    nops,        \* client: number of calls made after mm_init
    inited,      \* client: "no" before mm_init, then "ok" or "failed"
    scr          \* the scripted client's registers

vars == <<mem, mem_brk, heap_listp, seg_list, live, hist, nops, inited, scr>>

(***************************************************************************)
(* Raw memory.  A byte nobody has written yet holds an indeterminate       *)
(* value, written Junk; mm.c never branches on such a byte in valid use.   *)
(***************************************************************************)
Junk == -1
JunkWord == <<Junk, Junk, Junk, Junk, Junk, Junk, Junk, Junk>>

\* The 8 bytes of a word, little endian.  Every value mm.c stores is a
\* size or an address below 2^SizeBits, so its four high bytes are zero.
Encode(val) ==
    <<val % 256, (val \div 256) % 256, (val \div 65536) % 256,
      (val \div 16777216) % 256, 0, 0, 0, 0>>

Decode(word) ==
    word[1] + 256 * word[2] + 65536 * word[3] + 16777216 * word[4]

WordOf(p) == (p \div WSIZE) + 1

GET(m, p) == Decode(m[WordOf(p)])
PUT(m, p, val) == [m EXCEPT ![WordOf(p)] = Encode(val)]

RdByte(m, a) == m[WordOf(a)][(a % WSIZE) + 1]

\* size | alloc, for alloc in {0, 1}
PACK(size, alloc) == IF alloc = 1 /\ size % 2 = 1 THEN size ELSE size + alloc

\* GET(p) & ~0xF and GET(p) & 0x1
GET_SIZE(m, p) == GET(m, p) - (GET(m, p) % 16)
GET_ALLOC(m, p) == GET(m, p) % 2

HDRP(bp) == bp - WSIZE
FTRP(m, bp) == bp + GET_SIZE(m, HDRP(bp)) - DSIZE
NEXT_BLKP(m, bp) == bp + GET_SIZE(m, bp - WSIZE)
PREV_BLKP(m, bp) == bp - GET_SIZE(m, bp - DSIZE)

GET_PRED(m, bp) == GET(m, bp)
GET_SUCC(m, bp) == GET(m, bp + WSIZE)
SET_PRED(m, bp, pred) == PUT(m, bp, pred)
SET_SUCC(m, bp, succ) == PUT(m, bp + WSIZE, succ)

\* rounds up to the nearest multiple of ALIGNMENT (in size_t arithmetic)
ALIGN(size) ==
    LET sum == (size + (ALIGNMENT - 1)) % SizeMod
    IN  sum - (sum % 16)

MAX(x, y) == IF x > y THEN x ELSE y

(***************************************************************************)
(* The allocator state the helpers work on is a record                     *)
(*   [mem, brk, seg] of the heap words, the heap top and the list heads.   *)
(***************************************************************************)
\* seg_list with every head NULL
NoLists ==
    (0 :> NULL) @@ (1 :> NULL) @@ (2 :> NULL) @@ (3 :> NULL) @@ (4 :> NULL) @@
    (5 :> NULL) @@ (6 :> NULL) @@ (7 :> NULL) @@ (8 :> NULL) @@ (9 :> NULL)

\* get_list_index with the classes of 33..48 and 49..64 bytes apart and in
\* the wrong order.
get_list_index_Swapped(size) ==
    IF size <= 16 THEN 0
    ELSE IF size <= 32 THEN 1
    ELSE IF size <= 48 THEN 3
    ELSE IF size <= 64 THEN 2
    ELSE IF size <= 128 THEN 3
    ELSE IF size <= 256 THEN 4
    ELSE IF size <= 512 THEN 5
    ELSE IF size <= 1024 THEN 6
    ELSE IF size <= 2048 THEN 7
    ELSE IF size <= 4096 THEN 8
    ELSE 9

get_list_index(size) ==
    IF size <= 16 THEN 0
    ELSE IF size <= 32 THEN 1
    ELSE IF size <= 64 THEN 2
    ELSE IF size <= 128 THEN 3
    ELSE IF size <= 256 THEN 4
    ELSE IF size <= 512 THEN 5
    ELSE IF size <= 1024 THEN 6
    ELSE IF size <= 2048 THEN 7
    ELSE IF size <= 4096 THEN 8
    ELSE 9

\* Sequencing: Bind(v, F) is F(v), with v computed once, before F is
\* applied.
Bind(v, F(_)) == CHOOSE r \in {F(x) : x \in {v}} : TRUE

\* The loop of insert_block when it also walks past blocks of the same size.
RECURSIVE InsertScan_PastEqual(_, _, _, _)
InsertScan_PastEqual(m, curr, prev, size) ==
    IF curr # NULL /\ GET_SIZE(m, HDRP(curr)) <= size
    THEN InsertScan_PastEqual(m, GET_SUCC(m, curr), curr, size)
    ELSE <<prev, curr>>

\* The while loop of insert_block: <<prev, curr>> when it stops.
RECURSIVE InsertScan(_, _, _, _)
InsertScan(m, curr, prev, size) ==
    IF curr # NULL /\ GET_SIZE(m, HDRP(curr)) < size
    THEN InsertScan(m, GET_SUCC(m, curr), curr, size)
    ELSE <<prev, curr>>

\* insert_block that makes bp the head of its list, whatever the sizes.
insert_block_AtHead(st, bp) ==
    LET size == GET_SIZE(st.mem, HDRP(bp))
        index == get_list_index(size)
        curr == st.seg[index]
    IN  Bind(SET_SUCC(st.mem, bp, curr), LAMBDA m1 :
        Bind(SET_PRED(m1, bp, NULL), LAMBDA m2 :
        Bind(IF curr # NULL THEN SET_PRED(m2, curr, bp) ELSE m2, LAMBDA m3 :
        [st EXCEPT !.mem = m3, !.seg = [st.seg EXCEPT ![index] = bp]])))

insert_block(st, bp) ==
    LET size == GET_SIZE(st.mem, HDRP(bp))
        index == get_list_index(size)
    IN  Bind(InsertScan(st.mem, st.seg[index], NULL, size), LAMBDA pc :
        LET prev == pc[1]
            curr == pc[2]
        IN  Bind(SET_SUCC(st.mem, bp, curr), LAMBDA m1 :
            Bind(SET_PRED(m1, bp, prev), LAMBDA m2 :
            Bind(IF curr # NULL THEN SET_PRED(m2, curr, bp) ELSE m2, LAMBDA m3 :
            IF prev # NULL
            THEN [st EXCEPT !.mem = SET_SUCC(m3, prev, bp)]
            ELSE [st EXCEPT !.mem = m3, !.seg = [st.seg EXCEPT ![index] = bp]]))))

remove_block(st, bp) ==
    LET size == GET_SIZE(st.mem, HDRP(bp))
        index == get_list_index(size)
        pred == GET_PRED(st.mem, bp)
        succ == GET_SUCC(st.mem, bp)
    IN  Bind(IF pred = NULL
             THEN [st EXCEPT !.seg = [st.seg EXCEPT ![index] = succ]]
             ELSE [st EXCEPT !.mem = SET_SUCC(st.mem, pred, succ)], LAMBDA s1 :
        IF succ # NULL
        THEN [s1 EXCEPT !.mem = SET_PRED(s1.mem, succ, pred)]
        ELSE s1)

\* coalesce that leaves an absorbed next block linked in its list.
coalesce_KeepNext(st, bp0) ==
    LET m0 == st.mem
        prev_alloc == GET_ALLOC(m0, FTRP(m0, PREV_BLKP(m0, bp0)))
        next_alloc == GET_ALLOC(m0, HDRP(NEXT_BLKP(m0, bp0)))
        size0 == GET_SIZE(m0, HDRP(bp0))
        prev_free == (prev_alloc = 0)
        next_free == (next_alloc = 0)
    IN  Bind(IF prev_alloc = 0
             THEN remove_block(st, PREV_BLKP(st.mem, bp0)) ELSE st, LAMBDA s1 :
        Bind(s1, LAMBDA s2 :
        LET m == s2.mem
        IN  Bind(
            IF prev_alloc = 1 /\ next_alloc = 1
            THEN [mem |-> m, bp |-> bp0]
            ELSE IF prev_alloc = 1 /\ next_free
            THEN LET size == size0 + GET_SIZE(m, HDRP(NEXT_BLKP(m, bp0)))
                 IN  Bind(PUT(m, HDRP(bp0), PACK(size, 0)), LAMBDA ma :
                     Bind(PUT(ma, FTRP(ma, bp0), PACK(size, 0)), LAMBDA mb :
                     [mem |-> mb, bp |-> bp0]))
            ELSE IF prev_alloc = 0 /\ next_alloc = 1
            THEN LET size == size0 + GET_SIZE(m, HDRP(PREV_BLKP(m, bp0)))
                 IN  Bind(PUT(m, FTRP(m, bp0), PACK(size, 0)), LAMBDA ma :
                     Bind(PUT(ma, HDRP(PREV_BLKP(ma, bp0)), PACK(size, 0)), LAMBDA mb :
                     [mem |-> mb, bp |-> PREV_BLKP(mb, bp0)]))
            ELSE LET size == size0 + GET_SIZE(m, HDRP(PREV_BLKP(m, bp0)))
                                   + GET_SIZE(m, FTRP(m, NEXT_BLKP(m, bp0)))
                 IN  Bind(PUT(m, HDRP(PREV_BLKP(m, bp0)), PACK(size, 0)), LAMBDA ma :
                     Bind(PUT(ma, FTRP(ma, NEXT_BLKP(ma, bp0)), PACK(size, 0)), LAMBDA mb :
                     [mem |-> mb, bp |-> PREV_BLKP(mb, bp0)])),
            LAMBDA merged :
                \* Insert once after coalesce
                [st |-> insert_block([s2 EXCEPT !.mem = merged.mem], merged.bp),
                 bp |-> merged.bp])))

\* coalesce with the merging left out: the block is inserted as it is.
coalesce_NoMerge(st, bp0) ==
    [st |-> insert_block(st, bp0), bp |-> bp0]

(***************************************************************************)
(* coalesce - boundary tag coalescing.  The result is [st, bp]: the new    *)
(* state and the address of the coalesced block.                           *)
(***************************************************************************)
coalesce(st, bp0) ==
    LET m0 == st.mem
        prev_alloc == GET_ALLOC(m0, FTRP(m0, PREV_BLKP(m0, bp0)))
        next_alloc == GET_ALLOC(m0, HDRP(NEXT_BLKP(m0, bp0)))
        size0 == GET_SIZE(m0, HDRP(bp0))
        prev_free == (prev_alloc = 0)
        next_free == (next_alloc = 0)
    IN  Bind(IF prev_alloc = 0
             THEN remove_block(st, PREV_BLKP(st.mem, bp0)) ELSE st, LAMBDA s1 :
        Bind(IF next_alloc = 0
             THEN remove_block(s1, NEXT_BLKP(s1.mem, bp0)) ELSE s1, LAMBDA s2 :
        LET m == s2.mem
        IN  Bind(
            IF prev_alloc = 1 /\ next_alloc = 1
            THEN [mem |-> m, bp |-> bp0]
            ELSE IF prev_alloc = 1 /\ next_free
            THEN LET size == size0 + GET_SIZE(m, HDRP(NEXT_BLKP(m, bp0)))
                 IN  Bind(PUT(m, HDRP(bp0), PACK(size, 0)), LAMBDA ma :
                     Bind(PUT(ma, FTRP(ma, bp0), PACK(size, 0)), LAMBDA mb :
                     [mem |-> mb, bp |-> bp0]))
            ELSE IF prev_alloc = 0 /\ next_alloc = 1
            THEN LET size == size0 + GET_SIZE(m, HDRP(PREV_BLKP(m, bp0)))
                 IN  Bind(PUT(m, FTRP(m, bp0), PACK(size, 0)), LAMBDA ma :
                     Bind(PUT(ma, HDRP(PREV_BLKP(ma, bp0)), PACK(size, 0)), LAMBDA mb :
                     [mem |-> mb, bp |-> PREV_BLKP(mb, bp0)]))
            ELSE LET size == size0 + GET_SIZE(m, HDRP(PREV_BLKP(m, bp0)))
                                   + GET_SIZE(m, FTRP(m, NEXT_BLKP(m, bp0)))
                 IN  Bind(PUT(m, HDRP(PREV_BLKP(m, bp0)), PACK(size, 0)), LAMBDA ma :
                     Bind(PUT(ma, FTRP(ma, NEXT_BLKP(ma, bp0)), PACK(size, 0)), LAMBDA mb :
                     [mem |-> mb, bp |-> PREV_BLKP(mb, bp0)])),
            LAMBDA merged :
                \* Insert once after coalesce
                [st |-> insert_block([s2 EXCEPT !.mem = merged.mem], merged.bp),
                 bp |-> merged.bp])))

(***************************************************************************)
(* memlib's mem_sbrk, the region-growth primitive: the heap grows by incr  *)
(* bytes of indeterminate content and the old top is returned, or nothing  *)
(* changes and -1 is returned when the region is exhausted.                *)
(***************************************************************************)
MAX_HEAP == 4 * WSIZE + MaxChunks * CHUNKSIZE

\* n words of fresh memory
RECURSIVE JunkWords(_)
JunkWords(n) ==
    IF n = 0 THEN <<>>
    ELSE IF n % 2 = 0 THEN Bind(JunkWords(n \div 2), LAMBDA half : half \o half)
    ELSE Append(JunkWords(n - 1), JunkWord)

mem_sbrk(st, incr) ==
    IF incr < 0 \/ st.brk + incr > MAX_HEAP
    THEN [st |-> st, ret |-> -1]
    ELSE [st |-> [st EXCEPT !.brk = st.brk + incr,
                            !.mem = st.mem \o JunkWords(incr \div WSIZE)],
          ret |-> st.brk]

\* extend_heap with the new epilogue header left out.
extend_heap_NoEpilogue(st, words) ==
    LET size == IF words % 2 = 1 THEN (words + 1) * WSIZE ELSE words * WSIZE
    IN  Bind(mem_sbrk(st, size), LAMBDA grown :
        LET bp == grown.ret
        IN  IF bp = -1
            THEN [st |-> st, bp |-> NULL]
            ELSE Bind(PUT(grown.st.mem, HDRP(bp), PACK(size, 0)), LAMBDA m1 :
                 Bind(PUT(m1, FTRP(m1, bp), PACK(size, 0)), LAMBDA m2 :
                 Bind([grown.st EXCEPT !.mem = m2], LAMBDA s2 :
                 coalesce(s2, bp)))))

(***************************************************************************)
(* extend_heap - the result is [st, bp], bp = NULL when mem_sbrk failed.   *)
(***************************************************************************)
extend_heap(st, words) ==
    LET size == IF words % 2 = 1 THEN (words + 1) * WSIZE ELSE words * WSIZE
    IN  Bind(mem_sbrk(st, size), LAMBDA grown :
        LET bp == grown.ret
        IN  IF bp = -1
            THEN [st |-> st, bp |-> NULL]
            ELSE Bind(PUT(grown.st.mem, HDRP(bp), PACK(size, 0)), LAMBDA m1 :
                 Bind(PUT(m1, FTRP(m1, bp), PACK(size, 0)), LAMBDA m2 :
                 Bind(PUT(m2, HDRP(NEXT_BLKP(m2, bp)), PACK(0, 1)), LAMBDA m3 :
                 Bind([grown.st EXCEPT !.mem = m3], LAMBDA s3 :
                 coalesce(s3, bp))))))

\* mm_init with the alignment padding word left out.
mm_init_NoPadding(st) ==
    Bind(mem_sbrk([st EXCEPT !.seg = NoLists], 3 * WSIZE), LAMBDA grown :
    LET hp == grown.ret
    IN  IF hp = -1
        THEN [st |-> grown.st, heap_listp |-> hp, ret |-> -1]
        ELSE Bind(PUT(grown.st.mem, hp, PACK(DSIZE, 1)), LAMBDA m2 :
             Bind(PUT(m2, hp + (1 * WSIZE), PACK(DSIZE, 1)), LAMBDA m3 :
             Bind(PUT(m3, hp + (2 * WSIZE), PACK(0, 1)), LAMBDA m4 :
             Bind([grown.st EXCEPT !.mem = m4], LAMBDA s4 :
             Bind(extend_heap(s4, CHUNKSIZE \div WSIZE), LAMBDA ext :
             [st |-> ext.st, heap_listp |-> hp + (1 * WSIZE),
              ret |-> IF ext.bp = NULL THEN -1 ELSE 0]))))))

(***************************************************************************)
(* mm_init - the result is [st, heap_listp, ret].                          *)
(***************************************************************************)
mm_init(st) ==
    Bind(mem_sbrk([st EXCEPT !.seg = NoLists], 4 * WSIZE), LAMBDA grown :
    LET hp == grown.ret
    IN  IF hp = -1
        THEN [st |-> grown.st, heap_listp |-> hp, ret |-> -1]
        ELSE Bind(PUT(grown.st.mem, hp, 0), LAMBDA m1 :
             Bind(PUT(m1, hp + (1 * WSIZE), PACK(DSIZE, 1)), LAMBDA m2 :
             Bind(PUT(m2, hp + (2 * WSIZE), PACK(DSIZE, 1)), LAMBDA m3 :
             Bind(PUT(m3, hp + (3 * WSIZE), PACK(0, 1)), LAMBDA m4 :
             Bind([grown.st EXCEPT !.mem = m4], LAMBDA s4 :
             Bind(extend_heap(s4, CHUNKSIZE \div WSIZE), LAMBDA ext :
             [st |-> ext.st, heap_listp |-> hp + (2 * WSIZE),
              ret |-> IF ext.bp = NULL THEN -1 ELSE 0])))))))

\* place that does not insert the remainder of a split into its list.
place_NoInsert(st, bp, asize) ==
    LET csize == GET_SIZE(st.mem, HDRP(bp))
        min_block == 2 * DSIZE
    IN  Bind(remove_block(st, bp), LAMBDA s1 :
        IF (csize - asize) % SizeMod >= min_block
        THEN Bind(PUT(s1.mem, HDRP(bp), PACK(asize, 1)), LAMBDA m1 :
             Bind(PUT(m1, FTRP(m1, bp), PACK(asize, 1)), LAMBDA m2 :
             LET next_bp == NEXT_BLKP(m2, bp)
             IN  Bind(PUT(m2, HDRP(next_bp), PACK(csize - asize, 0)), LAMBDA m3 :
                 Bind(PUT(m3, FTRP(m3, next_bp), PACK(csize - asize, 0)), LAMBDA m4 :
                 [s1 EXCEPT !.mem = m4]))))
        ELSE Bind(PUT(s1.mem, HDRP(bp), PACK(csize, 1)), LAMBDA m1 :
             Bind(PUT(m1, FTRP(m1, bp), PACK(csize, 1)), LAMBDA m2 :
             [s1 EXCEPT !.mem = m2])))

\* place that also splits off a remainder of 16 bytes.
place_SplitSmall(st, bp, asize) ==
    LET csize == GET_SIZE(st.mem, HDRP(bp))
        min_block == DSIZE
    IN  Bind(remove_block(st, bp), LAMBDA s1 :
        IF (csize - asize) % SizeMod >= min_block
        THEN Bind(PUT(s1.mem, HDRP(bp), PACK(asize, 1)), LAMBDA m1 :
             Bind(PUT(m1, FTRP(m1, bp), PACK(asize, 1)), LAMBDA m2 :
             LET next_bp == NEXT_BLKP(m2, bp)
             IN  Bind(PUT(m2, HDRP(next_bp), PACK(csize - asize, 0)), LAMBDA m3 :
                 Bind(PUT(m3, FTRP(m3, next_bp), PACK(csize - asize, 0)), LAMBDA m4 :
                 Bind([s1 EXCEPT !.mem = m4], LAMBDA s4 :
                 insert_block(s4, next_bp))))))
        ELSE Bind(PUT(s1.mem, HDRP(bp), PACK(csize, 1)), LAMBDA m1 :
             Bind(PUT(m1, FTRP(m1, bp), PACK(csize, 1)), LAMBDA m2 :
             [s1 EXCEPT !.mem = m2])))

\* place that leaves out the header of the split-off remainder.
place_NoHeader(st, bp, asize) ==
    LET csize == GET_SIZE(st.mem, HDRP(bp))
        min_block == 2 * DSIZE
    IN  Bind(remove_block(st, bp), LAMBDA s1 :
        IF (csize - asize) % SizeMod >= min_block
        THEN Bind(PUT(s1.mem, HDRP(bp), PACK(asize, 1)), LAMBDA m1 :
             Bind(PUT(m1, FTRP(m1, bp), PACK(asize, 1)), LAMBDA m2 :
             LET next_bp == NEXT_BLKP(m2, bp)
             IN  Bind(PUT(m2, next_bp + csize - asize - DSIZE, PACK(csize - asize, 0)), LAMBDA m4 :
                 Bind([s1 EXCEPT !.mem = m4], LAMBDA s4 :
                 insert_block(s4, next_bp)))))
        ELSE Bind(PUT(s1.mem, HDRP(bp), PACK(csize, 1)), LAMBDA m1 :
             Bind(PUT(m1, FTRP(m1, bp), PACK(csize, 1)), LAMBDA m2 :
             [s1 EXCEPT !.mem = m2])))

\* place that never splits.
place_NoSplit(st, bp, asize) ==
    LET csize == GET_SIZE(st.mem, HDRP(bp))
    IN  Bind(remove_block(st, bp), LAMBDA s1 :
        Bind(PUT(s1.mem, HDRP(bp), PACK(csize, 1)), LAMBDA m1 :
        Bind(PUT(m1, FTRP(m1, bp), PACK(csize, 1)), LAMBDA m2 :
        [s1 EXCEPT !.mem = m2])))

\* place that leaves out the footer of the allocated front part of a split.
place_NoFooter(st, bp, asize) ==
    LET csize == GET_SIZE(st.mem, HDRP(bp))
        min_block == 2 * DSIZE
    IN  Bind(remove_block(st, bp), LAMBDA s1 :
        IF (csize - asize) % SizeMod >= min_block
        THEN Bind(PUT(s1.mem, HDRP(bp), PACK(asize, 1)), LAMBDA m2 :
             LET next_bp == NEXT_BLKP(m2, bp)
             IN  Bind(PUT(m2, HDRP(next_bp), PACK(csize - asize, 0)), LAMBDA m3 :
                 Bind(PUT(m3, FTRP(m3, next_bp), PACK(csize - asize, 0)), LAMBDA m4 :
                 Bind([s1 EXCEPT !.mem = m4], LAMBDA s4 :
                 insert_block(s4, next_bp)))))
        ELSE Bind(PUT(s1.mem, HDRP(bp), PACK(csize, 1)), LAMBDA m1 :
             Bind(PUT(m1, FTRP(m1, bp), PACK(csize, 1)), LAMBDA m2 :
             [s1 EXCEPT !.mem = m2])))

(***************************************************************************)
(* place                                                                   *)
(***************************************************************************)
place(st, bp, asize) ==
    LET csize == GET_SIZE(st.mem, HDRP(bp))
        min_block == 2 * DSIZE
    IN  Bind(remove_block(st, bp), LAMBDA s1 :
        IF (csize - asize) % SizeMod >= min_block
        THEN Bind(PUT(s1.mem, HDRP(bp), PACK(asize, 1)), LAMBDA m1 :
             Bind(PUT(m1, FTRP(m1, bp), PACK(asize, 1)), LAMBDA m2 :
             LET next_bp == NEXT_BLKP(m2, bp)
             IN  Bind(PUT(m2, HDRP(next_bp), PACK(csize - asize, 0)), LAMBDA m3 :
                 Bind(PUT(m3, FTRP(m3, next_bp), PACK(csize - asize, 0)), LAMBDA m4 :
                 Bind([s1 EXCEPT !.mem = m4], LAMBDA s4 :
                 insert_block(s4, next_bp))))))
        ELSE Bind(PUT(s1.mem, HDRP(bp), PACK(csize, 1)), LAMBDA m1 :
             Bind(PUT(m1, FTRP(m1, bp), PACK(csize, 1)), LAMBDA m2 :
             [s1 EXCEPT !.mem = m2])))

(***************************************************************************)
(* find_fit.  min_diff starts at (size_t)-1.                               *)
(***************************************************************************)
\* The inner for loop taking a later block on equal differences.
RECURSIVE FitScanList_LastTie(_, _, _, _, _)
FitScanList_LastTie(m, bp, asize, best_bp, min_diff) ==
    IF bp = NULL
    THEN [best_bp |-> best_bp, min_diff |-> min_diff, done |-> FALSE]
    ELSE LET bsize == GET_SIZE(m, HDRP(bp))
         IN  IF bsize >= asize /\ bsize - asize <= min_diff
             THEN FitScanList_LastTie(m, GET_SUCC(m, bp), asize, bp, bsize - asize)
             ELSE FitScanList_LastTie(m, GET_SUCC(m, bp), asize, best_bp, min_diff)

\* The inner for loop over one list: [best_bp, min_diff, done], done when
\* the loop returned from find_fit on a perfect fit.
RECURSIVE FitScanList(_, _, _, _, _)
FitScanList(m, bp, asize, best_bp, min_diff) ==
    IF bp = NULL
    THEN [best_bp |-> best_bp, min_diff |-> min_diff, done |-> FALSE]
    ELSE LET bsize == GET_SIZE(m, HDRP(bp))
         IN  IF bsize >= asize /\ bsize - asize < min_diff
             THEN IF bsize - asize = 0
                  THEN [best_bp |-> bp, min_diff |-> 0, done |-> TRUE]
                  ELSE FitScanList(m, GET_SUCC(m, bp), asize, bp, bsize - asize)
             ELSE FitScanList(m, GET_SUCC(m, bp), asize, best_bp, min_diff)

\* The outer for loop, from list index on.
RECURSIVE FitScanLists(_, _, _, _, _)
FitScanLists(st, index, asize, best_bp, min_diff) ==
    IF index >= N_LISTS
    THEN NULL
    ELSE Bind(FitScanList(st.mem, st.seg[index], asize, best_bp, min_diff), LAMBDA r :
         IF r.done \/ r.best_bp # NULL
         THEN r.best_bp
         ELSE FitScanLists(st, index + 1, asize, r.best_bp, r.min_diff))

\* find_fit that searches the list of get_list_index(asize) and no other.
find_fit_OneList(st, asize) ==
    FitScanList(st.mem, st.seg[get_list_index(asize)], asize, NULL, SIZE_MAX).best_bp

find_fit(st, asize) ==
    FitScanLists(st, get_list_index(asize), asize, NULL, SIZE_MAX)

(***************************************************************************)
(* mm_malloc - the result is [st, ret], ret the returned pointer.          *)
(***************************************************************************)
\* The adjusted size without the header and footer overhead.
AdjustedSize_NoOverhead(size) ==
    IF size <= DSIZE THEN 2 * DSIZE ELSE ALIGN(size)

AdjustedSize(size) ==
    IF size <= DSIZE THEN 2 * DSIZE ELSE ALIGN((size + DSIZE) % SizeMod)

\* mm_malloc that gives up when find_fit finds nothing.
mm_malloc_NoExtend(st, size) ==
    IF size = 0
    THEN [st |-> st, ret |-> NULL]
    ELSE LET asize == AdjustedSize(size)
         IN  Bind(find_fit(st, asize), LAMBDA bp :
             IF bp # NULL
             THEN [st |-> place(st, bp, asize), ret |-> bp]
             ELSE [st |-> st, ret |-> NULL])

mm_malloc(st, size) ==
    IF size = 0
    THEN [st |-> st, ret |-> NULL]
    ELSE LET asize == AdjustedSize(size)
         IN  Bind(find_fit(st, asize), LAMBDA bp :
             IF bp # NULL
             THEN [st |-> place(st, bp, asize), ret |-> bp]
             ELSE LET extendsize == MAX(asize, CHUNKSIZE)
                  IN  Bind(extend_heap(st, extendsize \div WSIZE), LAMBDA ext :
                      IF ext.bp = NULL
                      THEN [st |-> st, ret |-> NULL]
                      ELSE [st |-> place(ext.st, ext.bp, asize), ret |-> ext.bp]))

(***************************************************************************)
(* mm_free                                                                 *)
(***************************************************************************)
\* mm_free that marks the block free and neither coalesces nor inserts it.
mm_free_NoCoalesce(st, bp) ==
    LET size == GET_SIZE(st.mem, HDRP(bp))
    IN  Bind(PUT(st.mem, HDRP(bp), PACK(size, 0)), LAMBDA m1 :
        Bind(PUT(m1, FTRP(m1, bp), PACK(size, 0)), LAMBDA m2 :
        [st EXCEPT !.mem = m2]))

mm_free(st, bp) ==
    LET size == GET_SIZE(st.mem, HDRP(bp))
    IN  Bind(PUT(st.mem, HDRP(bp), PACK(size, 0)), LAMBDA m1 :
        Bind(PUT(m1, FTRP(m1, bp), PACK(size, 0)), LAMBDA m2 :
        Bind([st EXCEPT !.mem = m2], LAMBDA s2 :
        coalesce(s2, bp).st)))

(***************************************************************************)
(* memcpy(dst, src, n) for non-overlapping ranges: byte dst + k becomes    *)
(* byte src + k for every k < n.                                           *)
(***************************************************************************)
\* The word at address base of m, its bytes in [lo, hi) replaced by f.
Patch(m, base, lo, hi, f(_)) ==
    LET B(i) == IF base + i >= lo /\ base + i < hi
                THEN f(base + i) ELSE RdByte(m, base + i)
    IN  <<B(0), B(1), B(2), B(3), B(4), B(5), B(6), B(7)>>

\* m with the bytes in [lo, hi) replaced by f: the words before, the
\* patched words, the words after.
PatchRange(m, lo, hi, f(_)) ==
    LET first == WordOf(lo)
        last == WordOf(hi - 1)
    IN  IF hi <= lo
        THEN m
        ELSE SubSeq(m, 1, first - 1)
             \o [k \in 1..(last - first + 1) |->
                    Patch(m, (first + k - 2) * WSIZE, lo, hi, f)]
             \o SubSeq(m, last + 1, Len(m))

memcpy(m, dst, src, n) ==
    LET f(a) == RdByte(m, src + (a - dst))
    IN  PatchRange(m, dst, dst + n, f)

(***************************************************************************)
(* mm_realloc - the result is [st, ret].                                   *)
(***************************************************************************)
\* mm_realloc that releases the old block also when mm_malloc fails.
mm_realloc_FreeOnFail(st, ptr, size) ==
    IF size = 0
    THEN [st |-> mm_free(st, ptr), ret |-> NULL]
    ELSE IF ptr = NULL
    THEN mm_malloc(st, size)
    ELSE Bind(mm_malloc(st, size), LAMBDA new :
         LET newptr == new.ret
         IN  IF newptr = NULL
             THEN [st |-> mm_free(new.st, ptr), ret |-> NULL]
             ELSE LET oldsize == GET_SIZE(new.st.mem, HDRP(ptr)) - DSIZE
                      copySize == IF size < oldsize THEN size ELSE oldsize
                  IN  Bind(new.st, LAMBDA s1 :
                      Bind(memcpy(s1.mem, newptr, ptr, copySize), LAMBDA m2 :
                      Bind([s1 EXCEPT !.mem = m2], LAMBDA s2 :
                      [st |-> mm_free(s2, ptr), ret |-> newptr]))))

\* mm_realloc that releases the old block before it copies from it.
mm_realloc_FreeBeforeCopy(st, ptr, size) ==
    IF size = 0
    THEN [st |-> mm_free(st, ptr), ret |-> NULL]
    ELSE IF ptr = NULL
    THEN mm_malloc(st, size)
    ELSE Bind(mm_malloc(st, size), LAMBDA new :
         LET newptr == new.ret
         IN  IF newptr = NULL
             THEN [st |-> new.st, ret |-> NULL]
             ELSE LET oldsize == GET_SIZE(new.st.mem, HDRP(ptr)) - DSIZE
                      copySize == IF size < oldsize THEN size ELSE oldsize
                  IN  Bind(mm_free(new.st, ptr), LAMBDA s1 :
                      [st |-> [s1 EXCEPT !.mem = memcpy(s1.mem, newptr, ptr, copySize)],
                       ret |-> newptr]))

mm_realloc(st, ptr, size) ==
    IF size = 0
    THEN [st |-> mm_free(st, ptr), ret |-> NULL]
    ELSE IF ptr = NULL
    THEN mm_malloc(st, size)
    ELSE Bind(mm_malloc(st, size), LAMBDA new :
         LET newptr == new.ret
         IN  IF newptr = NULL
             THEN [st |-> new.st, ret |-> NULL]
             ELSE LET oldsize == GET_SIZE(new.st.mem, HDRP(ptr)) - DSIZE
                      copySize == IF size < oldsize THEN size ELSE oldsize
                  IN  Bind(new.st, LAMBDA s1 :
                      Bind(memcpy(s1.mem, newptr, ptr, copySize), LAMBDA m2 :
                      Bind([s1 EXCEPT !.mem = m2], LAMBDA s2 :
                      [st |-> mm_free(s2, ptr), ret |-> newptr]))))

(***************************************************************************)
(* The client.  It calls mm_init once, then mm_malloc, mm_free and         *)
(* mm_realloc as the preconditions allow (mm_free and mm_realloc only on   *)
(* pointers it holds), and writes into the bytes it asked for.             *)
(***************************************************************************)
St == [mem |-> mem, brk |-> mem_brk, seg |-> seg_list]

Commit(st) ==
    /\ mem' = st.mem
    /\ mem_brk' = st.brk
    /\ seg_list' = st.seg

Call(op, ptr, size, res, grew) ==
    [op |-> op, ptr |-> ptr, size |-> size, res |-> res, grew |-> grew]

Push(e) ==
    hist' = IF Len(hist) < 3 THEN Append(hist, e) ELSE Append(Tail(hist), e)

Last == hist[Len(hist)]

Hold(p, size) ==
    [q \in (DOMAIN live) \cup {p} |-> IF q = p THEN size ELSE live[q]]

Drop(lv, p) == [q \in (DOMAIN lv) \ {p} |-> lv[q]]

\* What the client writes at offset k of the allocation at p.
Pattern(p, k) == ((p \div DSIZE) + k) % 256

UserFill(m, p, n) ==
    LET f(a) == Pattern(p, a - p)
    IN  PatchRange(m, p, p + n, f)

NoScr == [pc |-> 0, a |-> 0, A |-> NULL, Asize |-> 0, b |-> 0, B |-> NULL,
          c |-> 0, C |-> NULL, d |-> 0, D |-> NULL]

Init ==
    /\ mem = <<>>
    /\ mem_brk = 0
    /\ heap_listp = NULL
    /\ seg_list = NoLists
    /\ live = <<>>
    /\ hist = <<>>
    /\ nops = 0
    /\ inited = "no"
    /\ scr = NoScr

MmInit ==
    /\ inited = "no"
    /\ \E r \in {mm_init(St)} :
           /\ Commit(r.st)
           /\ heap_listp' = r.heap_listp
           /\ inited' = IF r.ret = 0 THEN "ok" ELSE "failed"
           /\ Push(Call("init", NULL, 0, r.ret, r.st.brk > mem_brk))
    /\ UNCHANGED <<live, nops, scr>>

DoMalloc(size) ==
    \E r \in {mm_malloc(St, size)} :
        /\ Commit(r.st)
        /\ live' = IF r.ret # NULL THEN Hold(r.ret, size) ELSE live
        /\ Push(Call("malloc", NULL, size, r.ret, r.st.brk > mem_brk))
        /\ nops' = nops + 1
        /\ UNCHANGED <<heap_listp, inited>>

DoFree(p) ==
    \E st \in {mm_free(St, p)} :
        /\ Commit(st)
        /\ live' = Drop(live, p)
        /\ Push(Call("free", p, 0, NULL, st.brk > mem_brk))
        /\ nops' = nops + 1
        /\ UNCHANGED <<heap_listp, inited>>

DoRealloc(p, size) ==
    \E r \in {mm_realloc(St, p, size)} :
        /\ Commit(r.st)
        /\ live' = IF size = 0 THEN Drop(live, p)
                   ELSE IF r.ret = NULL THEN live
                   ELSE LET kept == IF p = NULL THEN live ELSE Drop(live, p)
                        IN  [q \in (DOMAIN kept) \cup {r.ret} |->
                                IF q = r.ret THEN size ELSE kept[q]]
        /\ Push(Call("realloc", p, size, r.ret, r.st.brk > mem_brk))
        /\ nops' = nops + 1
        /\ UNCHANGED <<heap_listp, inited>>

DoWrite(p) ==
    /\ mem' = UserFill(mem, p, live[p])
    /\ Push(Call("write", p, live[p], NULL, FALSE))
    /\ nops' = nops + 1
    /\ UNCHANGED <<mem_brk, seg_list, heap_listp, inited, live>>

Malloc ==
    /\ inited = "ok"
    /\ nops < MaxOps
    /\ Cardinality(DOMAIN live) < MaxLive
    /\ \E size \in MallocSizes : DoMalloc(size)
    /\ UNCHANGED scr

Free ==
    /\ inited = "ok"
    /\ nops < MaxOps
    /\ \E p \in DOMAIN live : DoFree(p)
    /\ UNCHANGED scr

\* The client resizes a pointer it holds, or NULL while it holds nothing.
Realloc ==
    /\ inited = "ok"
    /\ nops < MaxOps
    /\ \E p \in (DOMAIN live) \cup {NULL} : \E size \in ReallocSizes :
          /\ p = NULL => size # 0 /\ DOMAIN live = {}
          /\ DoRealloc(p, size)
    /\ UNCHANGED scr

\* The client fills an allocation right after it obtained it, or never.
Write ==
    /\ inited = "ok"
    /\ nops < MaxOps
    /\ Last.op \in {"malloc", "realloc"}
    /\ Last.res # NULL
    /\ DoWrite(Last.res)
    /\ UNCHANGED scr

Next == MmInit \/ Malloc \/ Free \/ Realloc \/ Write

Spec == Init /\ [][Next]_vars

(***************************************************************************)
(* The blocks of a heap, found by neighbour traversal: from the block      *)
(* after the prologue, stepping by header sizes,                           *)
(* until a header of size 0 (the epilogue) or the end of the region.       *)
(***************************************************************************)
RECURSIVE WalkFrom(_, _, _)
WalkFrom(m, brk, bp) ==
    IF bp < WSIZE \/ bp > brk
    THEN <<>>
    ELSE LET size == GET_SIZE(m, HDRP(bp))
         IN  IF size <= 0 \/ bp + size > brk
             THEN <<>>
             ELSE <<bp>> \o WalkFrom(m, brk, bp + size)

BlocksOf(m, brk, hl) ==
    LET walk == WalkFrom(m, brk, hl + DSIZE)
    IN  {walk[i] : i \in 1..Len(walk)}

Blocks == BlocksOf(mem, mem_brk, heap_listp)

SizeOf(bp) == GET_SIZE(mem, HDRP(bp))
IsFree(bp) == GET_ALLOC(mem, HDRP(bp)) = 0
FreeBlocks == {bp \in Blocks : IsFree(bp)}

\* The payload of the block at bp: the bytes between its header and footer.
PayloadOf(bp) == bp .. (bp + SizeOf(bp) - DSIZE - 1)

(***************************************************************************)
(* C1: the payloads of the live allocations are pairwise disjoint, lie     *)
(* strictly between the prologue and the epilogue, and each is at least as *)
(* large as the size requested for it.                                     *)
(***************************************************************************)
C1_LiveDisjoint ==
    inited = "ok" =>
        \A p \in DOMAIN live :
            /\ p \in Blocks
            /\ ~IsFree(p)
            /\ HDRP(p) >= heap_listp + WSIZE
            /\ FTRP(mem, p) + WSIZE <= mem_brk - WSIZE
            /\ SizeOf(p) - DSIZE >= live[p]
            /\ \A q \in DOMAIN live :
                  q # p => PayloadOf(p) \cap PayloadOf(q) = {}

\* Two allocations are held, one of them obtained by a resize that moved it.
C1_Witness ==
    /\ Cardinality(DOMAIN live) = 2
    /\ Len(hist) = 3
    /\ hist[3].op = "realloc" /\ hist[3].ptr # NULL /\ hist[3].res # NULL

(***************************************************************************)
(* C2: no two physically adjacent blocks are both free.                    *)
(***************************************************************************)
C2_NoAdjacentFree ==
    inited = "ok" =>
        \A bp \in Blocks :
            ~(IsFree(bp) /\ (bp + SizeOf(bp)) \in Blocks /\ IsFree(bp + SizeOf(bp)))

\* A release has just merged the released block with free neighbours on
\* both sides: everything is free again, in one block.
C2_Witness ==
    /\ inited = "ok"
    /\ Last.op = "free"
    /\ Len(hist) = 3 /\ hist[2].op = "free"
    /\ Blocks = {heap_listp + DSIZE}
    /\ IsFree(heap_listp + DSIZE)
    /\ SizeOf(heap_listp + DSIZE) = mem_brk - 4 * WSIZE

(***************************************************************************)
(* C3: every block between the prologue and the epilogue has a header      *)
(* word equal to its footer word.                                          *)
(***************************************************************************)
C3_HeaderEqualsFooter ==
    inited = "ok" =>
        \A bp \in Blocks : GET(mem, HDRP(bp)) = GET(mem, FTRP(mem, bp))

\* Blocks made by a split, by a merge and by heap growth are all present:
\* the region has grown, an allocation is held, and a release came last.
C3_Witness ==
    /\ inited = "ok"
    /\ mem_brk > 4 * WSIZE + CHUNKSIZE
    /\ Last.op = "free"
    /\ Cardinality(Blocks) >= 3
    /\ Cardinality(DOMAIN live) = 1

(***************************************************************************)
(* C4: every pointer the client holds is a multiple of 16 and the word     *)
(* just before it is the header of a block the heap walk finds, marked     *)
(* allocated.                                                              *)
(***************************************************************************)
C4_Aligned ==
    /\ \A p \in DOMAIN live :
          /\ p % ALIGNMENT = 0
          /\ p \in Blocks
          /\ GET_ALLOC(mem, p - WSIZE) = 1
    /\ (Len(hist) > 0 /\ Last.op \in {"malloc", "realloc"}) => Last.res % ALIGNMENT = 0

\* A pointer returned after a split, a heap growth and a merge.
C4_Witness ==
    /\ Len(hist) = 3
    /\ hist[1].op = "malloc" /\ hist[1].grew
    /\ hist[2].op = "free"
    /\ hist[3].op = "malloc" /\ hist[3].res # NULL /\ hist[3].size = 24

(***************************************************************************)
(* Steps and what they were.                                               *)
(***************************************************************************)
\* The step is a call of op (its record is Last').
Called(op) == nops' = nops + 1 /\ hist'[Len(hist')].op = op

Ret == hist'[Len(hist')]

Unchanged == mem' = mem /\ mem_brk' = mem_brk /\ seg_list' = seg_list

\* mem_sbrk would refuse the growth mm_malloc(size) asks for.
GrowthRefused(size) ==
    mem_sbrk(St, MAX(AdjustedSize(size), CHUNKSIZE)).ret = -1

(***************************************************************************)
(* C5: mm_malloc returns NULL only for size 0 or when mem_sbrk refuses to  *)
(* grow the region, and then headers, footers, links, the region top and   *)
(* the ten list heads are what they were before the call.                  *)
(***************************************************************************)
C5_NullLeavesState ==
    [][(Called("malloc") /\ Ret.res = NULL) =>
          /\ Ret.size = 0 \/ GrowthRefused(Ret.size)
          /\ Unchanged
          /\ live' = live]_vars

\* mm_malloc has returned NULL for a request that is not 0, with memory
\* still free in the lists.
C5_Witness ==
    /\ inited = "ok"
    /\ Last.op = "malloc" /\ Last.res = NULL /\ Last.size # 0
    /\ FreeBlocks # {}

(***************************************************************************)
(* C6: when mm_realloc(p, n), p not NULL and n > 0, returns NULL, the      *)
(* block at p is still allocated, and no word of the heap, no list head    *)
(* and not the region top has changed.                                     *)
(***************************************************************************)
C6_FailedReallocKeepsOld ==
    [][(Called("realloc") /\ Ret.ptr # NULL /\ Ret.size > 0 /\ Ret.res = NULL) =>
          /\ Unchanged
          /\ live' = live
          /\ GET_ALLOC(mem', HDRP(Ret.ptr)) = 1
          /\ GET_SIZE(mem', HDRP(Ret.ptr)) = GET_SIZE(mem, HDRP(Ret.ptr))]_vars

C6_Witness ==
    /\ inited = "ok"
    /\ Last.op = "realloc" /\ Last.ptr # NULL /\ Last.size > 0 /\ Last.res = NULL
    /\ Last.ptr \in DOMAIN live

(***************************************************************************)
(* C7: a successful mm_realloc(p, n), p not NULL and n > 0, returns q # p, *)
(* the first min(n, old block size - 16) bytes at q are the bytes that     *)
(* were at p, and the old block is free afterwards.                        *)
(***************************************************************************)
Min(x, y) == IF x < y THEN x ELSE y

C7_ReallocCopies ==
    [][(Called("realloc") /\ Ret.ptr # NULL /\ Ret.size > 0 /\ Ret.res # NULL) =>
          LET p == Ret.ptr
              q == Ret.res
              n == Min(Ret.size, GET_SIZE(mem, HDRP(p)) - DSIZE)
          IN  /\ q # p
              /\ \A k \in 0..(n - 1) : RdByte(mem', q + k) = RdByte(mem, p + k)
              /\ \E bp \in BlocksOf(mem', mem_brk', heap_listp') :
                    /\ GET_ALLOC(mem', HDRP(bp)) = 0
                    /\ bp <= p
                    /\ p + GET_SIZE(mem, HDRP(p)) <= bp + GET_SIZE(mem', HDRP(bp))
         ]_vars

\* A 100-byte allocation was filled by the client and then resized to 200.
C7_Witness ==
    /\ Len(hist) = 3
    /\ hist[1].op = "malloc" /\ hist[1].size = 100
    /\ hist[2].op = "write" /\ hist[2].ptr = hist[1].res
    /\ hist[3].op = "realloc" /\ hist[3].ptr = hist[1].res
    /\ hist[3].size = 200 /\ hist[3].res # NULL

(***************************************************************************)
(* C8: exact reuse.  When p = mm_malloc(n) succeeds, mm_free(p) follows at *)
(* once and mm_malloc(n) comes next, that call returns p again and does    *)
(* not grow the region.                                                    *)
(***************************************************************************)
C8_ExactReuse ==
    (/\ Len(hist) = 3
     /\ hist[1].op = "malloc" /\ hist[1].res # NULL
     /\ hist[2].op = "free" /\ hist[2].ptr = hist[1].res
     /\ hist[3].op = "malloc" /\ hist[3].size = hist[1].size)
    => (hist[3].res = hist[1].res /\ ~hist[3].grew)

\* The three calls have happened, on a heap that already holds another
\* allocation, for the size of the spec's instance.
C8_Witness ==
    /\ Len(hist) = 3
    /\ nops = 4
    /\ hist[1].op = "malloc" /\ hist[1].res # NULL /\ hist[1].size = 24
    /\ hist[2].op = "free" /\ hist[2].ptr = hist[1].res
    /\ hist[3].op = "malloc" /\ hist[3].size = 24
    /\ Cardinality(DOMAIN live) = 2

(***************************************************************************)
(* C10: the top of the region never decreases and its bottom never moves;  *)
(* only an allocation (mm_malloc, or mm_realloc with a size above 0)       *)
(* raises the top, mm_free never changes it, and after each raise the      *)
(* epilogue header is the last word of the region: the last block of the   *)
(* heap walk ends there, and the word that was the epilogue lies inside a  *)
(* block.                                                                  *)
(***************************************************************************)
C10_GrowthMonotone ==
    [][inited = "ok" =>
          /\ mem_brk' >= mem_brk
          /\ heap_listp' = heap_listp
          /\ GET(mem', heap_listp - WSIZE) = PACK(DSIZE, 1)
          /\ Called("free") => mem_brk' = mem_brk
          /\ mem_brk' > mem_brk =>
                /\ Called("malloc") \/ (Called("realloc") /\ Ret.size > 0)
                /\ Ret.grew
                /\ GET(mem', mem_brk' - WSIZE) = PACK(0, 1)
                /\ \E bp \in BlocksOf(mem', mem_brk', heap_listp') :
                      bp + GET_SIZE(mem', HDRP(bp)) = mem_brk'
                /\ \E bp \in BlocksOf(mem', mem_brk', heap_listp') :
                      /\ HDRP(bp) <= mem_brk - WSIZE
                      /\ mem_brk - WSIZE < HDRP(bp) + GET_SIZE(mem', HDRP(bp))]_vars

\* The region has been raised by a resize.
C10_Witness ==
    /\ inited = "ok"
    /\ Last.op = "realloc" /\ Last.grew
    /\ mem_brk > 4 * WSIZE + CHUNKSIZE

(***************************************************************************)
(* The scripted client of the split-then-serve test: after mm_init,        *)
(*   A = mm_malloc(a); B = mm_malloc(b); mm_free(A); C = mm_malloc(c);     *)
(*   D = mm_malloc(d)                                                      *)
(* for sizes a, b, c, d drawn from ScriptSizes.                            *)
(***************************************************************************)
ScriptA ==
    /\ inited = "ok"
    /\ scr.pc = 0
    /\ \E a \in ScriptSizes :
          /\ DoMalloc(a)
          /\ scr' = [scr EXCEPT !.pc = 1, !.a = a, !.A = Ret.res,
                                !.Asize = GET_SIZE(mem', HDRP(Ret.res))]

ScriptB ==
    /\ scr.pc = 1
    /\ \E b \in ScriptSizes :
          /\ DoMalloc(b)
          /\ scr' = [scr EXCEPT !.pc = 2, !.b = b, !.B = Ret.res]

ScriptFreeA ==
    /\ scr.pc = 2
    /\ DoFree(scr.A)
    /\ scr' = [scr EXCEPT !.pc = 3]

ScriptC ==
    /\ scr.pc = 3
    /\ \E c \in ScriptSizes :
          /\ DoMalloc(c)
          /\ scr' = [scr EXCEPT !.pc = 4, !.c = c, !.C = Ret.res]

ScriptD ==
    /\ scr.pc = 4
    /\ \E d \in ScriptSizes :
          /\ DoMalloc(d)
          /\ scr' = [scr EXCEPT !.pc = 5, !.d = d, !.D = Ret.res]

SplitNext == MmInit \/ ScriptA \/ ScriptB \/ ScriptFreeA \/ ScriptC \/ ScriptD

SplitSpec == Init /\ [][SplitNext]_vars

\* The script has run with the sizes of the test: 200, 200, 40, 150.
SplitDone ==
    scr.pc = 5 /\ scr.a = 200 /\ scr.b = 200 /\ scr.c = 40 /\ scr.d = 150

\* The block at bp lies inside the span the block A occupied.
InsideA(bp) ==
    bp >= scr.A /\ bp + SizeOf(bp) <= scr.A + scr.Asize

(***************************************************************************)
(* C9 as claimed: the block mm_malloc(150) returns lies inside the span A  *)
(* occupied, and the region has not grown.                                 *)
(***************************************************************************)
C9_AsClaimed ==
    SplitDone => (scr.D # NULL /\ InsideA(scr.D) /\ ~Last.grew)

(***************************************************************************)
(* C9: split-then-serve.  After A = mm_malloc(200), B = mm_malloc(200),    *)
(* mm_free(A), C = mm_malloc(40), the call mm_malloc(150) succeeds without *)
(* growing the region; C lies inside the span A occupied, but the 160      *)
(* bytes left of A are fewer than the 176 the request needs: they stay     *)
(* free and the returned block lies beyond B.                              *)
(***************************************************************************)
C9_SplitThenServe ==
    SplitDone =>
        /\ scr.D # NULL
        /\ ~Last.grew
        /\ mem_brk = 4 * WSIZE + CHUNKSIZE
        /\ InsideA(scr.C)
        /\ scr.C + SizeOf(scr.C) \in FreeBlocks
        /\ SizeOf(scr.C + SizeOf(scr.C)) = 160
        /\ scr.D > scr.B

C9_Witness == SplitDone /\ scr.D \in DOMAIN live

(***************************************************************************)
(* The bucket lists, walked as find_fit walks them: from the head along    *)
(* the successor links to NULL.  The walk gives up after more steps than   *)
(* the heap has blocks, so that a list that runs in a circle is a          *)
(* sequence with repetitions.                                              *)
(***************************************************************************)
RECURSIVE ListFrom(_, _, _)
ListFrom(m, bp, fuel) ==
    IF bp = NULL \/ fuel = 0
    THEN <<>>
    ELSE <<bp>> \o ListFrom(m, GET_SUCC(m, bp), fuel - 1)

Bucket(index) == ListFrom(mem, seg_list[index], Cardinality(Blocks) + 1)

Indexes == 0..(N_LISTS - 1)

\* The positions <<index, k>> at which bp is linked.
Linked(bp) ==
    UNION {LET list == Bucket(index)
           IN  {<<index, k>> : k \in {j \in 1..Len(list) : list[j] = bp}} :
           index \in Indexes}

(***************************************************************************)
(* C11: every free block of the heap is linked exactly once, in the list   *)
(* of get_list_index(its size), and every block linked in any list is a    *)
(* free block of the heap.                                                 *)
(***************************************************************************)
C11_BucketMembership ==
    inited = "ok" =>
        /\ \A index \in Indexes :
              LET list == Bucket(index)
              IN  \A k \in 1..Len(list) : list[k] \in FreeBlocks
        /\ \A bp \in FreeBlocks :
              /\ Cardinality(Linked(bp)) = 1
              /\ \A ik \in Linked(bp) : ik[1] = get_list_index(SizeOf(bp))

\* A release has left two free blocks with an allocation between them,
\* kept in two lists.
C11_Witness ==
    /\ inited = "ok"
    /\ Last.op = "free"
    /\ Cardinality(FreeBlocks) = 2
    /\ Cardinality(DOMAIN live) = 1
    /\ Cardinality({index \in Indexes : seg_list[index] # NULL}) >= 2

(***************************************************************************)
(* The small-block client: after mm_init it calls mm_malloc with small     *)
(* sizes and mm_free, holding enough allocations at once for several free  *)
(* blocks to lie apart from one another and share a list.                  *)
(***************************************************************************)
PoolMalloc ==
    /\ inited = "ok"
    /\ nops < PoolOps
    /\ Cardinality(DOMAIN live) < PoolLive
    /\ \E size \in PoolSizes : DoMalloc(size)
    /\ UNCHANGED scr

PoolFree ==
    /\ inited = "ok"
    /\ nops < PoolOps
    /\ \E p \in DOMAIN live : DoFree(p)
    /\ UNCHANGED scr

PoolNext == MmInit \/ PoolMalloc \/ PoolFree

PoolSpec == Init /\ [][PoolNext]_vars

Monotonic ==
    \A s \in 0..MAX_HEAP : get_list_index(s) <= get_list_index(s + 1)

\* The free blocks that can hold asize bytes.
Fits(asize) == {bp \in FreeBlocks : SizeOf(bp) >= asize}

\* The step is a call that calls mm_malloc for a size above 0.
Allocates ==
    (Called("malloc") \/ Called("realloc")) /\ Ret.size # 0

C13_FitComplete ==
    [][Allocates =>
          LET asize == AdjustedSize(Ret.size)
          IN  /\ Monotonic
              /\ find_fit(St, asize) = NULL => Fits(asize) = {}
              /\ Ret.grew => Fits(asize) = {}
              /\ Ret.res = NULL => Fits(asize) = {}
              /\ Fits(asize) # {} => (Ret.res # NULL /\ ~Ret.grew)]_vars

\* A request has been served from a free block, while another allocation
\* is held, in a region mem_sbrk will not grow any more.
C13_Witness ==
    /\ inited = "ok"
    /\ Last.op = "malloc" /\ Last.res # NULL /\ ~Last.grew
    /\ mem_brk = MAX_HEAP
    /\ get_list_index(SizeOf(Last.res)) < 8
    /\ Cardinality(DOMAIN live) = 2

(***************************************************************************)
(* C14: find_fit(asize) returns a block of the first list, from            *)
(* get_list_index(asize) upward, that holds a block of at least asize      *)
(* bytes: a block of the least such size in that list, and among those of  *)
(* that size the first in list order; it returns NULL when no list from    *)
(* there on holds such a block.                                            *)
(***************************************************************************)
ProbeSizes == {AdjustedSize(n) : n \in ProbeRequests}

\* The positions of list index that hold a block of at least asize bytes.
FitsAt(index, asize) ==
    LET list == Bucket(index)
    IN  {k \in 1..Len(list) : SizeOf(list[k]) >= asize}

\* The lists find_fit may look at that hold such a block.
Admissible(asize) ==
    {index \in Indexes : index >= get_list_index(asize) /\ FitsAt(index, asize) # {}}

C14_FindFitPolicy ==
    inited = "ok" =>
        \A asize \in ProbeSizes :
            LET found == find_fit(St, asize)
            IN  IF Admissible(asize) = {}
                THEN found = NULL
                ELSE LET first == CHOOSE index \in Admissible(asize) :
                                     \A other \in Admissible(asize) : index <= other
                         list == Bucket(first)
                     IN  \E k \in FitsAt(first, asize) :
                            /\ found = list[k]
                            /\ \A j \in FitsAt(first, asize) :
                                  \/ SizeOf(list[j]) > SizeOf(list[k])
                                  \/ SizeOf(list[j]) = SizeOf(list[k]) /\ j >= k

\* A tie: a list holds two blocks of one size, each larger than a probed
\* size that no lower list can serve, and a higher list holds a block too.
C14_Witness ==
    /\ inited = "ok"
    /\ \E index \in Indexes : \E asize \in ProbeSizes :
          LET list == Bucket(index)
          IN  /\ Len(list) = 2
              /\ SizeOf(list[1]) = SizeOf(list[2])
              /\ asize < SizeOf(list[1])
              /\ find_fit(St, asize) = list[1]
              /\ \E other \in Indexes : other > index /\ seg_list[other] # NULL

(***************************************************************************)
(* C15: place(bp, asize) on a free block of csize >= asize bytes splits    *)
(* exactly when csize - asize >= 32: then the block at bp is allocated     *)
(* with asize bytes and the csize - asize bytes behind it are one free     *)
(* block, linked once, in the list of its size; otherwise the block at bp  *)
(* is allocated with all csize bytes.  Every block mm_malloc or mm_realloc *)
(* hands out has asize or asize + 16 bytes.                                *)
(***************************************************************************)
\* The block at bp of the state st is linked once, in the list of its size,
\* and in no other list.
LinkedOnceIn(st, bp) ==
    LET fuel == Cardinality(BlocksOf(st.mem, st.brk, heap_listp)) + 1
        At(index) == ListFrom(st.mem, st.seg[index], fuel)
        Hits(index) == LET list == At(index)
                       IN  {k \in 1..Len(list) : list[k] = bp}
        own == get_list_index(GET_SIZE(st.mem, HDRP(bp)))
    IN  \A index \in Indexes :
            Cardinality(Hits(index)) = IF index = own THEN 1 ELSE 0

Placed(bp, asize) ==
    LET csize == SizeOf(bp)
        st == place(St, bp, asize)
        m == st.mem
    IN  IF csize - asize >= 32
        THEN /\ GET(m, HDRP(bp)) = PACK(asize, 1)
             /\ GET(m, bp + asize - DSIZE) = PACK(asize, 1)
             /\ GET(m, HDRP(bp + asize)) = PACK(csize - asize, 0)
             /\ GET(m, bp + csize - DSIZE) = PACK(csize - asize, 0)
             /\ BlocksOf(m, st.brk, heap_listp) = Blocks \cup {bp + asize}
             /\ LinkedOnceIn(st, bp + asize)
        ELSE /\ GET(m, HDRP(bp)) = PACK(csize, 1)
             /\ GET(m, bp + csize - DSIZE) = PACK(csize, 1)
             /\ BlocksOf(m, st.brk, heap_listp) = Blocks
             /\ \A index \in Indexes :
                   st.seg[index] # bp /\ seg_list[index] # bp => st.seg[index] = seg_list[index]

C15_PlaceSplits ==
    [](inited = "ok" =>
        /\ \A bp \in FreeBlocks : \A asize \in ProbeSizes :
              asize <= SizeOf(bp) => Placed(bp, asize)
        /\ (Last.op \in {"malloc", "realloc"} /\ Last.res # NULL) =>
              SizeOf(Last.res) \in
                  {AdjustedSize(Last.size), AdjustedSize(Last.size) + 16})

\* mm_malloc has handed out a block of asize + 16 bytes, unsplit, and a
\* free block that a probed size splits is present.
C15_Witness ==
    /\ inited = "ok"
    /\ Last.op = "malloc" /\ Last.res # NULL
    /\ SizeOf(Last.res) = AdjustedSize(Last.size) + 16
    /\ \E bp \in FreeBlocks : \E asize \in ProbeSizes : SizeOf(bp) - asize >= 32

(***************************************************************************)
(* C16: mm_free(p) replaces the block at p and those of its two            *)
(* neighbours that are free by one free block that covers exactly their    *)
(* bytes; the absorbed neighbours are no longer linked, the merged block   *)
(* is linked once, in the list of its size, and every other block keeps    *)
(* its header, its footer, its list and its place among the other blocks   *)
(* of that list.                                                           *)
(***************************************************************************)
\* The state after the step, as a record.
StNext == [mem |-> mem', brk |-> mem_brk', seg |-> seg_list']

\* The list index after the step.
BucketNext(index) ==
    ListFrom(mem', seg_list'[index],
             Cardinality(BlocksOf(mem', mem_brk', heap_listp')) + 1)

\* The first and one past the last byte address of what mm_free(p) merges.
MergeLo(p) ==
    IF GET_ALLOC(mem, p - DSIZE) = 0 THEN p - GET_SIZE(mem, p - DSIZE) ELSE p

MergeHi(p) ==
    IF GET_ALLOC(mem, HDRP(p + SizeOf(p))) = 0
    THEN p + SizeOf(p) + GET_SIZE(mem, HDRP(p + SizeOf(p)))
    ELSE p + SizeOf(p)

C16_ReleaseFrame ==
    [][Called("free") =>
          LET p == Ret.ptr
              lo == MergeLo(p)
              hi == MergeHi(p)
              Outside(bp) == bp < lo \/ bp >= hi
              NotMerged(bp) == bp # lo
          IN  /\ BlocksOf(mem', mem_brk', heap_listp')
                    = {bp \in Blocks : Outside(bp)} \cup {lo}
              /\ GET(mem', HDRP(lo)) = PACK(hi - lo, 0)
              /\ GET(mem', hi - DSIZE) = PACK(hi - lo, 0)
              /\ LinkedOnceIn(StNext, lo)
              /\ \A bp \in Blocks : Outside(bp) =>
                    /\ GET(mem', HDRP(bp)) = GET(mem, HDRP(bp))
                    /\ GET(mem', FTRP(mem, bp)) = GET(mem, FTRP(mem, bp))
              /\ \A index \in Indexes :
                    SelectSeq(BucketNext(index), NotMerged)
                        = SelectSeq(Bucket(index), Outside)]_vars

\* A release has merged the block with a free block before it, while
\* another free block stays linked and two allocations are held.
C16_Witness ==
    /\ inited = "ok"
    /\ Last.op = "free"
    /\ Cardinality(DOMAIN live) >= 2
    /\ \E bp \in FreeBlocks : bp < Last.ptr /\ Last.ptr < bp + SizeOf(bp)
    /\ Cardinality(FreeBlocks) >= 2

(***************************************************************************)
(* The adjusted size as a function of the request alone: a client that     *)
(* asks once, for any size of the size type above 0, and notes the         *)
(* adjusted size mm_malloc computes for it.                                *)
(***************************************************************************)
Adjust ==
    /\ hist = <<>>
    /\ \E size \in 1..SIZE_MAX :
          hist' = <<Call("adjust", NULL, size, AdjustedSize(size), FALSE)>>
    /\ UNCHANGED <<mem, mem_brk, heap_listp, seg_list, live, nops, inited, scr>>

AdjustSpec == Init /\ [][Adjust]_vars

\* align16(max(size + 16, 32)), in the integers
AdjustedExact(size) ==
    LET need == MAX(size + 16, 32)
    IN  ((need + 15) \div 16) * 16

(***************************************************************************)
(* C17 as claimed: for every request size from 1 to SIZE_MAX the adjusted  *)
(* size mm_malloc computes is align16(max(size + 16, 32)) taken in the     *)
(* integers: a multiple of 16, at least 32 and at least size + 16.         *)
(***************************************************************************)
C17_AsClaimed ==
    (Len(hist) = 1 /\ hist[1].op = "adjust") =>
        /\ hist[1].res = AdjustedExact(hist[1].size)
        /\ hist[1].res % 16 = 0
        /\ hist[1].res >= 32
        /\ hist[1].res >= hist[1].size + 16

C19_GlobalBestFit ==
    inited = "ok" =>
        \A asize \in ProbeSizes :
            LET found == find_fit(St, asize)
            IN  IF Fits(asize) = {}
                THEN found = NULL
                ELSE /\ found \in Fits(asize)
                     /\ \A bp \in Fits(asize) : SizeOf(found) <= SizeOf(bp)
                     /\ \A index \in Indexes :
                           index > get_list_index(SizeOf(found)) =>
                               LET list == Bucket(index)
                               IN  \A k \in FitsAt(index, asize) :
                                      SizeOf(list[k]) - asize > SizeOf(found) - asize

\* A probed size fits blocks of two sizes in the first list that can
\* serve it and a block of a later list, and is no perfect fit for any.
C19_Witness ==
    /\ inited = "ok"
    /\ \E asize \in ProbeSizes :
          LET found == find_fit(St, asize)
              own == get_list_index(SizeOf(found))
          IN  /\ found # NULL
              /\ SizeOf(found) > asize
              /\ \E k \in FitsAt(own, asize) :
                    SizeOf(Bucket(own)[k]) > SizeOf(found)
              /\ \E index \in Indexes : index > own /\ FitsAt(index, asize) # {}

(***************************************************************************)
(* C20: after every call the blocks tile the region.  Stepping from the    *)
(* block behind the prologue by header sizes ends at the epilogue header,  *)
(* a word PACK(0, 1) that is the last word of the region; every block on   *)
(* the way has a size that is a multiple of 16 and at least 32; and the    *)
(* sizes add up to the size of the region less the 32 bytes of padding,    *)
(* prologue and epilogue.                                                  *)
(***************************************************************************)
\* The sum of the header sizes of the blocks of a walk.
RECURSIVE SumOfSizes(_)
SumOfSizes(walk) ==
    IF walk = <<>> THEN 0 ELSE SizeOf(Head(walk)) + SumOfSizes(Tail(walk))

C20_BlocksTile ==
    inited = "ok" =>
        LET walk == WalkFrom(mem, mem_brk, heap_listp + DSIZE)
            last == walk[Len(walk)]
        IN  /\ walk # <<>>
            /\ HDRP(last + SizeOf(last)) = mem_brk - WSIZE
            /\ GET(mem, mem_brk - WSIZE) = PACK(0, 1)
            /\ \A i \in 1..Len(walk) :
                  SizeOf(walk[i]) % 16 = 0 /\ SizeOf(walk[i]) >= 32
            /\ SumOfSizes(walk) = mem_brk - 4 * WSIZE

\* The region has grown, a release has just been made, and the walk
\* passes a free block, an allocated block and another free block.
C20_Witness ==
    /\ inited = "ok"
    /\ Last.op = "free"
    /\ mem_brk > 4 * WSIZE + CHUNKSIZE
    /\ \E a \in FreeBlocks : \E b \in Blocks \ FreeBlocks : \E c \in FreeBlocks :
          a < b /\ b < c

====
